---- MODULE Spec2Model ----
(***************************************************************************)
(* The survey pipeline of pipeline.py: one run fetches the CSV export of   *)
(* the form, renames its columns, coerces its values and replaces the      *)
(* table migration.migration_on_job_market with the rows of the export.    *)
(*                                                                         *)
(* Text is a sequence of one-character strings, so that strip, lower and   *)
(* replace are computed character by character as the library does.        *)
(***************************************************************************)
EXTENDS Integers, Sequences, FiniteSets, TLC

VARIABLES
  pc,         \* the statement of the script the run is at
  response,   \* requests.get(...): its status_code
  df,         \* the DataFrame: [columns, rows], rows aligned with columns
  error,      \* the exception that ended the run, or NoError
  conn,       \* the psycopg2 connection: "none", "open" or "closed"
  cur,        \* its cursor: "none", "open" or "closed"
  session,    \* the database as the run's open transaction sees it
  durable,    \* the database as committed: what any later reader sees
  prior,      \* the committed database when the run started
  statements, \* the SQL statements the run issued, each with its outcome
  raw,        \* a raw header text given to the renaming chain
  renamed,    \* the results of applying the chain to it once, then again
  column,     \* the texts of one CSV column, one per data line
  series,     \* that column as read_csv and the null coercion leave it
  passed      \* the values the INSERT is given for it, one per row

vars == << pc, response, df, error, conn, cur, session, durable, prior,
           statements, raw, renamed, column, series, passed >>

pipelineVars == << pc, response, df, error, conn, cur, session, durable,
                   prior, statements >>
renameVars == << raw, renamed >>
columnVars == << column, series, passed >>

----------------------------------------------------------------------------
(* Bounds of the model.                                                    *)

\* Longest raw header text given to the renaming chain on its own.
MaxHeaderLen == 3
\* Most data lines of a CSV export.
MaxRows == 2
\* Longest text of a numeric cell.
MaxDigits == 2
\* Longest text of a rural-to-urban cell.
MaxAnswerLen == 4

----------------------------------------------------------------------------
(* Text.                                                                   *)

\* Every text over the alphabet A of length at most n.
Texts(A, n) == UNION { [1..k -> A] : k \in 0..n }

\* What str.strip() removes from both ends.
Whitespace == { " ", "\t", "\n" }

UpperToLower ==
  [ c \in { "A", "B", "C", "D", "E", "F", "G", "H", "I", "J", "K", "L", "M",
            "N", "O", "P", "Q", "R", "S", "T", "U", "V", "W", "X", "Y", "Z" } |->
      CASE c = "A" -> "a" [] c = "B" -> "b" [] c = "C" -> "c" [] c = "D" -> "d"
        [] c = "E" -> "e" [] c = "F" -> "f" [] c = "G" -> "g" [] c = "H" -> "h"
        [] c = "I" -> "i" [] c = "J" -> "j" [] c = "K" -> "k" [] c = "L" -> "l"
        [] c = "M" -> "m" [] c = "N" -> "n" [] c = "O" -> "o" [] c = "P" -> "p"
        [] c = "Q" -> "q" [] c = "R" -> "r" [] c = "S" -> "s" [] c = "T" -> "t"
        [] c = "U" -> "u" [] c = "V" -> "v" [] c = "W" -> "w" [] c = "X" -> "x"
        [] c = "Y" -> "y" [] c = "Z" -> "z" ]

\* str.strip(): the text without its leading and trailing whitespace.
Strip(s) ==
  LET kept == { i \in DOMAIN s : s[i] \notin Whitespace }
  IN  IF kept = {} THEN << >>
      ELSE LET first == CHOOSE i \in kept : \A j \in kept : i <= j
               last  == CHOOSE i \in kept : \A j \in kept : j <= i
           IN  SubSeq(s, first, last)

\* str.lower()
Lower(s) ==
  [ i \in DOMAIN s |->
      IF s[i] \in DOMAIN UpperToLower THEN UpperToLower[s[i]] ELSE s[i] ]

\* str.replace(old, new) for a one-character old and a text new.
RECURSIVE Replace(_, _, _)
Replace(s, old, new) ==
  IF s = << >> THEN << >>
  ELSE (IF Head(s) = old THEN new ELSE << Head(s) >>)
         \o Replace(Tail(s), old, new)

\* The chain with "&" spelled out between spaces.
CanonicalizeSpacedAnd(h) ==
  Replace(
    Replace(
      Replace(
        Replace(Lower(Strip(h)), "?", << >>),
        " ", << "_" >>),
      "&", << " ", "a", "n", "d", " " >>),
    "-", << "_" >>)

\* df.columns.str.strip().str.lower().str.replace("?", "", regex=False)
\*   .str.replace(" ", "_").str.replace("&", "and").str.replace("-", "_")
Canonicalize(h) ==
  Replace(
    Replace(
      Replace(
        Replace(Lower(Strip(h)), "?", << >>),
        " ", << "_" >>),
      "&", << "a", "n", "d" >>),
    "-", << "_" >>)

----------------------------------------------------------------------------
(* The keys the script reads, as they are spelled in it.                   *)

\* row["start"]
start ==
  <<
    "s","t","a","r","t" >>

\* row["end"]
end ==
  <<
    "e","n","d" >>

\* row["gender"]
gender ==
  <<
    "g","e","n","d","e","r" >>

\* row["current_highest_level_of_education"]
current_highest_level_of_education ==
  <<
    "c","u","r","r","e","n","t","_","h","i","g","h","e","s","t","_","l","e","v","e",
    "l","_","o","f","_","e","d","u","c","a","t","i","o","n" >>

\* row["province_of_origin"]
province_of_origin ==
  <<
    "p","r","o","v","i","n","c","e","_","o","f","_","o","r","i","g","i","n" >>

\* row["what_was_your_age_range_at_the_time_of_migration"]
what_was_your_age_range_at_the_time_of_migration ==
  <<
    "w","h","a","t","_","w","a","s","_","y","o","u","r","_","a","g","e","_","r","a",
    "n","g","e","_","a","t","_","t","h","e","_","t","i","m","e","_","o","f","_","m",
    "i","g","r","a","t","i","o","n" >>

\* row["did_you_migrate_from_a_rural_area_to_this_urban_area"]
did_you_migrate_from_a_rural_area_to_this_urban_area ==
  <<
    "d","i","d","_","y","o","u","_","m","i","g","r","a","t","e","_","f","r","o","m",
    "_","a","_","r","u","r","a","l","_","a","r","e","a","_","t","o","_","t","h","i",
    "s","_","u","r","b","a","n","_","a","r","e","a" >>

\* row["what_is_your_current_employment_status_in_this_urban_area"]
what_is_your_current_employment_status_in_this_urban_area ==
  <<
    "w","h","a","t","_","i","s","_","y","o","u","r","_","c","u","r","r","e","n","t",
    "_","e","m","p","l","o","y","m","e","n","t","_","s","t","a","t","u","s","_","i",
    "n","_","t","h","i","s","_","u","r","b","a","n","_","a","r","e","a" >>

\* row["how_many_months_did_it_take_you_to_get_your_first_job_after_arriving_in_the_city"]
how_many_months_did_it_take_you_to_get_your_first_job_after_arriving_in_the_city ==
  <<
    "h","o","w","_","m","a","n","y","_","m","o","n","t","h","s","_","d","i","d","_",
    "i","t","_","t","a","k","e","_","y","o","u","_","t","o","_","g","e","t","_","y",
    "o","u","r","_","f","i","r","s","t","_","j","o","b","_","a","f","t","e","r","_",
    "a","r","r","i","v","i","n","g","_","i","n","_","t","h","e","_","c","i","t","y" >>

\* row["what_is_your_current_average_monthly_income_(rwf)"]
what_is_your_current_average_monthly_income_rwf ==
  <<
    "w","h","a","t","_","i","s","_","y","o","u","r","_","c","u","r","r","e","n","t",
    "_","a","v","e","r","a","g","e","_","m","o","n","t","h","l","y","_","i","n","c",
    "o","m","e","_","(","r","w","f",")" >>

\* row["in_the_last_12_months,_how_many_job_applications_have_you_submitted_in_this_urban_area"]
in_the_last_12_months_how_many_job_applications_have_you_submitted_in_this_urban_area ==
  <<
    "i","n","_","t","h","e","_","l","a","s","t","_","1","2","_","m","o","n","t","h",
    "s",",","_","h","o","w","_","m","a","n","y","_","j","o","b","_","a","p","p","l",
    "i","c","a","t","i","o","n","s","_","h","a","v","e","_","y","o","u","_","s","u",
    "b","m","i","t","t","e","d","_","i","n","_","t","h","i","s","_","u","r","b","a",
    "n","_","a","r","e","a" >>

\* row["how_many_times_have_you_changed_jobs_since_moving_to_the_city"]
how_many_times_have_you_changed_jobs_since_moving_to_the_city ==
  <<
    "h","o","w","_","m","a","n","y","_","t","i","m","e","s","_","h","a","v","e","_",
    "y","o","u","_","c","h","a","n","g","e","d","_","j","o","b","s","_","s","i","n",
    "c","e","_","m","o","v","i","n","g","_","t","o","_","t","h","e","_","c","i","t",
    "y" >>

\* The keys of line 122 to 133 that are read as row[key], in the order the
\* tuple of the INSERT evaluates them; the rural-to-urban key is read with
\* row.get and is not among them.
IndexedKeys ==
  << start, end, gender, current_highest_level_of_education,
     province_of_origin, what_was_your_age_range_at_the_time_of_migration,
     what_is_your_current_employment_status_in_this_urban_area,
     how_many_months_did_it_take_you_to_get_your_first_job_after_arriving_in_the_city,
     what_is_your_current_average_monthly_income_rwf,
     in_the_last_12_months_how_many_job_applications_have_you_submitted_in_this_urban_area,
     how_many_times_have_you_changed_jobs_since_moving_to_the_city >>

\* Every key the script expects of the export.
ExpectedKeys ==
  { IndexedKeys[k] : k \in DOMAIN IndexedKeys }
    \cup { did_you_migrate_from_a_rural_area_to_this_urban_area }

----------------------------------------------------------------------------
(* Values of a DataFrame cell and of a Python expression.                  *)

None == [t |-> "None"]
NaN == [t |-> "nan"]
NaT == [t |-> "NaT"]
IntV(n) == [t |-> "int", v |-> n]
FloatV(n) == [t |-> "float", v |-> n]
StrV(s) == [t |-> "str", v |-> s]
Timestamp(y, m, d) == [t |-> "Timestamp", v |-> << y, m, d >>]
BoolV(b) == [t |-> "bool", v |-> b]

Digits == { "0", "1", "2", "3", "4", "5", "6", "7", "8", "9" }

DigitValue(c) ==
  CASE c = "0" -> 0 [] c = "1" -> 1 [] c = "2" -> 2 [] c = "3" -> 3
    [] c = "4" -> 4 [] c = "5" -> 5 [] c = "6" -> 6 [] c = "7" -> 7
    [] c = "8" -> 8 [] c = "9" -> 9

DigitChar(n) ==
  CASE n = 0 -> "0" [] n = 1 -> "1" [] n = 2 -> "2" [] n = 3 -> "3"
    [] n = 4 -> "4" [] n = 5 -> "5" [] n = 6 -> "6" [] n = 7 -> "7"
    [] n = 8 -> "8" [] n = 9 -> "9"

IsNumberText(s) == s # << >> /\ \A i \in DOMAIN s : s[i] \in Digits

\* The integer a text of digits denotes, leading zeros allowed.
RECURSIVE ParseInt(_)
ParseInt(s) ==
  IF s = << >> THEN 0
  ELSE 10 * ParseInt(SubSeq(s, 1, Len(s) - 1)) + DigitValue(s[Len(s)])

\* The digits of a natural number.
RECURSIVE FormatInt(_)
FormatInt(n) ==
  IF n < 10 THEN << DigitChar(n) >>
  ELSE FormatInt(n \div 10) \o << DigitChar(n % 10) >>

\* An empty field is a missing value to read_csv.
IsMissing(s) == s = << >>

\* The dtype read_csv infers for a column from the texts of its fields.
ColumnDtype(col) ==
  IF \E i \in DOMAIN col : ~IsMissing(col[i]) /\ ~IsNumberText(col[i])
    THEN "object"
  ELSE IF \E i \in DOMAIN col : IsMissing(col[i])
    THEN "float64"
  ELSE "int64"

\* pd.read_csv for one column: every field as a value of the column's dtype.
ReadColumn(col) ==
  [ i \in DOMAIN col |->
      IF IsMissing(col[i]) THEN NaN
      ELSE CASE ColumnDtype(col) = "object" -> StrV(col[i])
             [] ColumnDtype(col) = "float64" -> FloatV(ParseInt(col[i]))
             [] ColumnDtype(col) = "int64" -> IntV(ParseInt(col[i])) ]

\* df.where(pd.notnull(df), None) for one cell of a column of the given dtype.
\* An object column takes None for a null.  A float64 column takes None only
\* where the library casts the column to object for it (pandas before 1.3);
\* later versions keep the column float64 and the null stays NaN.
Where(dtype, castsToObject, v) ==
  IF v = NaN /\ (dtype = "object" \/ castsToObject) THEN None ELSE v

\* A text of the form YYYY-MM-DD naming a month and a day that exist.
IsDateText(s) ==
  /\ Len(s) = 10
  /\ s[5] = "-" /\ s[8] = "-"
  /\ \A i \in { 1, 2, 3, 4, 6, 7, 9, 10 } : s[i] \in Digits
  /\ ParseInt(SubSeq(s, 6, 7)) \in 1..12
  /\ ParseInt(SubSeq(s, 9, 10)) \in 1..28

\* pd.to_datetime(..., errors="coerce") for one cell: a text that is a date
\* gives its timestamp, a number counts from the epoch, and everything else,
\* None included, gives NaT.
ToDatetime(v) ==
  CASE v.t = "str" /\ IsDateText(v.v) ->
         Timestamp(ParseInt(SubSeq(v.v, 1, 4)), ParseInt(SubSeq(v.v, 6, 7)),
                   ParseInt(SubSeq(v.v, 9, 10)))
    [] v.t \in { "int", "float" } -> Timestamp(1970, 1, 1)
    [] OTHER -> NaT

\* bool(v), as "or" tests it.  NaN is a non-zero float.
Truthy(v) ==
  CASE v.t = "None" -> FALSE
    [] v.t \in { "int", "float" } -> v.v # 0
    [] v.t = "str" -> v.v # << >>
    [] OTHER -> TRUE

\* row[...] or 0
OrZero(v) == IF Truthy(v) THEN v ELSE IntV(0)

\* str(v)
PyStr(v) ==
  CASE v.t = "None" -> << "N", "o", "n", "e" >>
    [] v.t = "nan" -> << "n", "a", "n" >>
    [] v.t = "NaT" -> << "N", "a", "T" >>
    [] v.t = "str" -> v.v
    [] v.t = "int" -> FormatInt(v.v)
    [] v.t = "float" -> FormatInt(v.v) \o << ".", "0" >>

\* The comparison without the strip.
RuralToUrbanUnstripped(v) == BoolV(Lower(PyStr(v)) = << "y", "e", "s" >>)

\* str(...).strip().lower() == "yes"
RuralToUrban(v) == BoolV(Lower(Strip(PyStr(v))) = << "y", "e", "s" >>)

----------------------------------------------------------------------------
(* The CSV export and the DataFrame read from it.                          *)

\* The header line of the export: the form's question labels in export order,
\* each the label whose renamed form is the key the script reads.
KoboLabels ==
  <<
  <<
    "s","t","a","r","t" >>,
  <<
    "e","n","d" >>,
  <<
    "G","e","n","d","e","r" >>,
  <<
    "C","u","r","r","e","n","t"," ","h","i","g","h","e","s","t"," ","l","e","v","e",
    "l"," ","o","f"," ","e","d","u","c","a","t","i","o","n" >>,
  <<
    "P","r","o","v","i","n","c","e"," ","o","f"," ","o","r","i","g","i","n" >>,
  <<
    "W","h","a","t"," ","w","a","s"," ","y","o","u","r"," ","a","g","e"," ","r","a",
    "n","g","e"," ","a","t"," ","t","h","e"," ","t","i","m","e"," ","o","f"," ","m",
    "i","g","r","a","t","i","o","n","?" >>,
  <<
    "D","i","d"," ","y","o","u"," ","m","i","g","r","a","t","e"," ","f","r","o","m",
    " ","a"," ","r","u","r","a","l"," ","a","r","e","a"," ","t","o"," ","t","h","i",
    "s"," ","u","r","b","a","n"," ","a","r","e","a","?" >>,
  <<
    "W","h","a","t"," ","i","s"," ","y","o","u","r"," ","c","u","r","r","e","n","t",
    " ","e","m","p","l","o","y","m","e","n","t"," ","s","t","a","t","u","s"," ","i",
    "n"," ","t","h","i","s"," ","u","r","b","a","n"," ","a","r","e","a","?" >>,
  <<
    "H","o","w"," ","m","a","n","y"," ","m","o","n","t","h","s"," ","d","i","d"," ",
    "i","t"," ","t","a","k","e"," ","y","o","u"," ","t","o"," ","g","e","t"," ","y",
    "o","u","r"," ","f","i","r","s","t"," ","j","o","b"," ","a","f","t","e","r"," ",
    "a","r","r","i","v","i","n","g"," ","i","n"," ","t","h","e"," ","c","i","t","y",
    "?" >>,
  <<
    "W","h","a","t"," ","i","s"," ","y","o","u","r"," ","c","u","r","r","e","n","t",
    " ","a","v","e","r","a","g","e"," ","m","o","n","t","h","l","y"," ","i","n","c",
    "o","m","e"," ","(","R","W","F",")","?" >>,
  <<
    "I","n"," ","t","h","e"," ","l","a","s","t"," ","1","2"," ","m","o","n","t","h",
    "s",","," ","h","o","w"," ","m","a","n","y"," ","j","o","b"," ","a","p","p","l",
    "i","c","a","t","i","o","n","s"," ","h","a","v","e"," ","y","o","u"," ","s","u",
    "b","m","i","t","t","e","d"," ","i","n"," ","t","h","i","s"," ","u","r","b","a",
    "n"," ","a","r","e","a","?" >>,
  <<
    "H","o","w"," ","m","a","n","y"," ","t","i","m","e","s"," ","h","a","v","e"," ",
    "y","o","u"," ","c","h","a","n","g","e","d"," ","j","o","b","s"," ","s","i","n",
    "c","e"," ","m","o","v","i","n","g"," ","t","o"," ","t","h","e"," ","c","i","t",
    "y","?" >>
  >>

GoodDate == << "2", "0", "2", "4", "-", "0", "1", "-", "0", "5" >>
BadDate == << "s", "o", "o", "n" >>

\* One data line of the export: the two timestamps and the months-to-first-job
\* answer vary, the other answers are fixed texts of their kind.
Line(s, e, months) ==
  << s, e, << "F" >>, << "B", "S", "c" >>, << "K", "i", "g", "a", "l", "i" >>,
     << "1", "8", "-", "2", "5" >>, << "Y", "E", "S", " " >>,
     << "E", "m", "p", "l", "o", "y", "e", "d" >>, months,
     << "5", "0", "0" >>, << "0" >>, << "1" >> >>

\* A line with one field more than the header has: the parser skips it.
BadLine == Line(GoodDate, GoodDate, << "7" >>) \o << << "x" >> >>

\* The data lines an export is made of: a complete answer, one without the
\* months, one with a start and one with an end that is no date, and a line
\* the parser skips.
DataLines ==
  { Line(GoodDate, GoodDate, << "7" >>),
    Line(GoodDate, GoodDate, << >>),
    Line(BadDate, GoodDate, << "7" >>),
    Line(GoodDate, BadDate, << "7" >>),
    BadLine }

\* The sequence without its k-th element; all of it for k = 0.
Omit(s, k) ==
  IF k = 0 THEN s ELSE SubSeq(s, 1, k - 1) \o SubSeq(s, k + 1, Len(s))

\* The exports the run may be given: the form's header with at most one
\* column left out, and up to MaxRows data lines.
Exports ==
  { [header |-> Omit(KoboLabels, k),
     lines |-> [i \in DOMAIN ls |-> Omit(ls[i], k)]] :
      k \in 0..Len(KoboLabels), ls \in Texts(DataLines, MaxRows) }

\* The status codes the endpoint may answer with.
StatusCodes == { 200, 201, 401, 500 }

EmptyFrame == [columns |-> << >>, dtypes |-> << >>, rows |-> << >>]

\* pd.read_csv(csv_data, sep=";", on_bad_lines="skip")
ReadCsv(body) ==
  LET kept == SelectSeq(body.lines, LAMBDA l : Len(l) <= Len(body.header))
      col(j) == [i \in DOMAIN kept |-> kept[i][j]]
  IN  [columns |-> body.header,
       dtypes |-> [j \in DOMAIN body.header |->
                     IF kept = << >> THEN "object" ELSE ColumnDtype(col(j))],
       rows |-> [i \in DOMAIN kept |->
                   [j \in DOMAIN body.header |-> ReadColumn(col(j))[i]]]]

\* Line 47 to 55: every column name through the chain.
RenameColumns(d) ==
  [d EXCEPT !.columns = [j \in DOMAIN d.columns |-> Canonicalize(d.columns[j])]]

\* Line 58: the null coercion of every cell.
CoerceNulls(d, castsToObject) ==
  [d EXCEPT
     !.dtypes = [j \in DOMAIN d.dtypes |->
                   IF castsToObject THEN "object" ELSE d.dtypes[j]],
     !.rows = [i \in DOMAIN d.rows |->
                 [j \in DOMAIN d.columns |->
                    Where(d.dtypes[j], castsToObject, d.rows[i][j])]]]

HasColumn(d, key) == \E j \in DOMAIN d.columns : d.columns[j] = key

IndexOf(d, key) == CHOOSE j \in DOMAIN d.columns : d.columns[j] = key

\* row[key]
Cell(d, i, key) == d.rows[i][IndexOf(d, key)]

\* row.get(key, default)
Get(d, i, key, default) ==
  IF HasColumn(d, key) THEN Cell(d, i, key) ELSE default

\* df[key] = pd.to_datetime(df[key], errors="coerce")
ConvertTimestamps(d, key) ==
  [d EXCEPT
     !.dtypes[IndexOf(d, key)] = "datetime64",
     !.rows = [i \in DOMAIN d.rows |->
                 [d.rows[i] EXCEPT ![IndexOf(d, key)] = ToDatetime(@)]]]

\* The first key of the INSERT's tuple that the row does not have.
MissingKeys(d) == { k \in DOMAIN IndexedKeys : ~HasColumn(d, IndexedKeys[k]) }

FirstMissingKey(d) ==
  IndexedKeys[CHOOSE k \in MissingKeys(d) : \A m \in MissingKeys(d) : k <= m]

\* Line 121 to 134: the tuple given to the INSERT for row i.
Params(d, i) ==
  << Cell(d, i, start),
     Cell(d, i, end),
     Cell(d, i, gender),
     Cell(d, i, current_highest_level_of_education),
     Cell(d, i, province_of_origin),
     Cell(d, i, what_was_your_age_range_at_the_time_of_migration),
     RuralToUrban(Get(d, i, did_you_migrate_from_a_rural_area_to_this_urban_area,
                      StrV(<< >>))),
     Cell(d, i, what_is_your_current_employment_status_in_this_urban_area),
     OrZero(Cell(d, i,
       how_many_months_did_it_take_you_to_get_your_first_job_after_arriving_in_the_city)),
     OrZero(Cell(d, i, what_is_your_current_average_monthly_income_rwf)),
     OrZero(Cell(d, i,
       in_the_last_12_months_how_many_job_applications_have_you_submitted_in_this_urban_area)),
     OrZero(Cell(d, i,
       how_many_times_have_you_changed_jobs_since_moving_to_the_city)) >>

----------------------------------------------------------------------------
(* The database.                                                           *)

schema_name == "migration"
table_name == "migration_on_job_market"

\* The column types of the CREATE TABLE, id aside, in the INSERT's order.
ColumnTypes ==
  << "TIMESTAMP", "TIMESTAMP", "TEXT", "TEXT", "TEXT", "TEXT", "BOOLEAN",
     "TEXT", "INT", "INT", "INT", "INT" >>

\* Whether the server takes the value the driver renders for a column of the
\* type.  None is NULL.  NaT is rendered 'NaT' and NaN 'NaN', which are no
\* timestamp and no integer.
Accepts(type, v) ==
  \/ v.t = "None"
  \/ type = "TIMESTAMP" /\ v.t = "Timestamp"
  \/ type = "TEXT" /\ v.t \in { "str", "int", "float", "nan" }
  \/ type = "BOOLEAN" /\ v.t = "bool"
  \/ type = "INT" /\ (v.t \in { "int", "float" } \/ (v.t = "str" /\ IsNumberText(v.v)))

Rejected(params) == { k \in DOMAIN params : ~Accepts(ColumnTypes[k], params[k]) }

\* The value as the column of the type stores it.
Stored(type, v) ==
  CASE type = "INT" /\ v.t = "float" -> IntV(v.v)
    [] type = "INT" /\ v.t = "str" -> IntV(ParseInt(v.v))
    [] type = "TEXT" /\ v.t = "int" -> StrV(FormatInt(v.v))
    [] type = "TEXT" /\ v.t = "float" -> StrV(FormatInt(v.v) \o << ".", "0" >>)
    [] type = "TEXT" /\ v.t = "nan" -> StrV(<< "N", "a", "N" >>)
    [] OTHER -> v

\* The row an INSERT of the tuple adds to a table of n rows.
TableRow(n, params) ==
  [id |-> n + 1, values |-> [k \in DOMAIN params |-> Stored(ColumnTypes[k], params[k])]]

\* A database without the schema.
NoDatabaseObjects == [schemas |-> {}, tables |-> {}, rows |-> << >>]

\* A row an earlier run left in the table.
EarlierRow ==
  TableRow(0, << Timestamp(2023, 12, 31), Timestamp(2023, 12, 31), StrV(<< "M" >>),
                 None, None, None, BoolV(FALSE), None, IntV(1), IntV(2), IntV(3),
                 IntV(4) >>)

\* What the database may hold when a run starts: nothing, or the table as
\* an earlier run committed it.
PriorDatabases ==
  { NoDatabaseObjects,
    [schemas |-> { schema_name }, tables |-> { table_name }, rows |-> << EarlierRow >>] }

\* CREATE SCHEMA IF NOT EXISTS migration
CreateSchemaIfNotExists(db) == [db EXCEPT !.schemas = @ \cup { schema_name }]

\* DROP TABLE IF EXISTS migration.migration_on_job_market
DropTableIfExists(db) == [db EXCEPT !.tables = @ \ { table_name }, !.rows = << >>]

\* CREATE TABLE migration.migration_on_job_market (...)
CreateTableIn(db) == [db EXCEPT !.tables = @ \cup { table_name }, !.rows = << >>]

\* INSERT INTO migration.migration_on_job_market (...) VALUES (...)
InsertInto(db, params) ==
  [db EXCEPT !.rows = Append(@, TableRow(Len(@), params))]

\* The connection commits every statement as it is executed.
AutocommitOn == TRUE

\* psycopg2.connect(...) leaves autocommit off: the statements of the run are
\* one transaction, which conn.commit() ends.
Autocommit == FALSE

\* What is committed after a statement that left the transaction seeing db.
AfterStatement(committed, db) == IF Autocommit THEN db ELSE committed

----------------------------------------------------------------------------
(* The run.                                                                *)

NoError == [kind |-> "none"]
\* Exception(f"Failed to fetch data: {response.status_code}")
FetchError(status) == [kind |-> "Exception", status_code |-> status]
\* The KeyError of a row[key] or df[key] whose key is no column.
KeyError(key) == [kind |-> "KeyError", key |-> key]
\* The connection or the server failed at a statement.
OperationalError(sql) == [kind |-> "OperationalError", sql |-> sql]
\* The server refused the value given for a column of the INSERT.
DataError(k) == [kind |-> "DataError", column |-> k]

Statement(sql, ok) == [sql |-> sql, ok |-> ok]
InsertStatement(params, ok) == [sql |-> "INSERT", params |-> params, ok |-> ok]

\* How many rows the loop has inserted.
Inserted ==
  Cardinality({ k \in DOMAIN statements : statements[k].sql = "INSERT" /\ statements[k].ok })

\* The run is treated as failed for every status but the server's errors.
FetchFailedOnServerErrorOnly(status) == status >= 500

\* if response.status_code != 200
FetchFailed(status) == status # 200

\* The loop stops one row short.
LoopDoneEarly(d, n) == n + 1 >= Len(d.rows)

\* for _, row in df.iterrows(): the loop is over after the last row.
LoopDone(d, n) == n = Len(d.rows)

\* The script ends by the exception; nothing of it runs afterwards.
Abort(e) ==
  /\ pc' = "aborted"
  /\ error' = e

\* Line 31 to 40: the GET, the status check and read_csv.
Fetch ==
  /\ pc = "fetch"
  /\ \E status \in StatusCodes, body \in Exports :
       /\ response' = [status_code |-> status]
       /\ IF FetchFailed(status)
            THEN Abort(FetchError(status)) /\ UNCHANGED df
            ELSE /\ df' = ReadCsv(body)
                 /\ pc' = "normalize"
                 /\ UNCHANGED error
  /\ UNCHANGED << conn, cur, session, durable, prior, statements >>

\* Line 47 to 62: the renaming, the null coercion and the two timestamps.
Normalize ==
  /\ pc = "normalize"
  /\ \E castsToObject \in BOOLEAN :
       LET coerced == CoerceNulls(RenameColumns(df), castsToObject)
       IN  IF ~HasColumn(coerced, start)
             THEN df' = coerced /\ Abort(KeyError(start))
           ELSE IF ~HasColumn(coerced, end)
             THEN df' = ConvertTimestamps(coerced, start) /\ Abort(KeyError(end))
           ELSE /\ df' = ConvertTimestamps(ConvertTimestamps(coerced, start), end)
                /\ pc' = "connect"
                /\ UNCHANGED error
  /\ UNCHANGED << response, conn, cur, session, durable, prior, statements >>

\* Line 72 to 80: psycopg2.connect and conn.cursor.
Connect ==
  /\ pc = "connect"
  /\ \E ok \in BOOLEAN :
       IF ok
         THEN /\ conn' = "open"
              /\ cur' = "open"
              /\ session' = durable
              /\ pc' = "create_schema"
              /\ UNCHANGED error
         ELSE /\ Abort(OperationalError("connect"))
              /\ UNCHANGED << conn, cur, session >>
  /\ UNCHANGED << response, df, durable, prior, statements >>

\* Line 82: CREATE SCHEMA IF NOT EXISTS.
CreateSchema ==
  /\ pc = "create_schema"
  /\ \E ok \in BOOLEAN :
       /\ statements' = Append(statements, Statement("CREATE SCHEMA IF NOT EXISTS", ok))
       /\ IF ok
            THEN /\ session' = CreateSchemaIfNotExists(session)
                 /\ durable' = AfterStatement(durable, session')
                 /\ pc' = "drop_table"
                 /\ UNCHANGED error
            ELSE /\ Abort(OperationalError("CREATE SCHEMA IF NOT EXISTS"))
                 /\ UNCHANGED << session, durable >>
  /\ UNCHANGED << response, df, conn, cur, prior >>

\* Line 83: DROP TABLE IF EXISTS.
DropTable ==
  /\ pc = "drop_table"
  /\ \E ok \in BOOLEAN :
       /\ statements' = Append(statements, Statement("DROP TABLE IF EXISTS", ok))
       /\ IF ok
            THEN /\ session' = DropTableIfExists(session)
                 /\ durable' = AfterStatement(durable, session')
                 /\ pc' = "create_table"
                 /\ UNCHANGED error
            ELSE /\ Abort(OperationalError("DROP TABLE IF EXISTS"))
                 /\ UNCHANGED << session, durable >>
  /\ UNCHANGED << response, df, conn, cur, prior >>

\* Line 85 to 101: CREATE TABLE.
CreateTable ==
  /\ pc = "create_table"
  /\ \E ok \in BOOLEAN :
       /\ statements' = Append(statements, Statement("CREATE TABLE", ok))
       /\ IF ok
            THEN /\ session' = CreateTableIn(session)
                 /\ durable' = AfterStatement(durable, session')
                 /\ pc' = "insert"
                 /\ UNCHANGED error
            ELSE /\ Abort(OperationalError("CREATE TABLE"))
                 /\ UNCHANGED << session, durable >>
  /\ UNCHANGED << response, df, conn, cur, prior >>

\* Line 120 to 134: one turn of the loop.  The tuple is evaluated first, and
\* a key the row does not have ends the run there; then the INSERT is
\* executed, which the server refuses for a value its column cannot take.
InsertRow ==
  /\ pc = "insert"
  /\ ~LoopDone(df, Inserted)
  /\ IF MissingKeys(df) # {}
       THEN /\ Abort(KeyError(FirstMissingKey(df)))
            /\ UNCHANGED << session, durable, statements >>
       ELSE LET params == Params(df, Inserted + 1)
            IN  \E ok \in BOOLEAN :
                  LET done == ok /\ Rejected(params) = {}
                  IN  /\ statements' = Append(statements, InsertStatement(params, done))
                      /\ IF done
                           THEN /\ session' = InsertInto(session, params)
                                /\ durable' = AfterStatement(durable, session')
                                /\ UNCHANGED << pc, error >>
                           ELSE /\ Abort(IF Rejected(params) # {}
                                           THEN DataError(CHOOSE k \in Rejected(params) :
                                                  \A m \in Rejected(params) : k <= m)
                                           ELSE OperationalError("INSERT"))
                                /\ UNCHANGED << session, durable >>
  /\ UNCHANGED << response, df, conn, cur, prior >>

\* Line 136: conn.commit().
Commit ==
  /\ pc = "insert"
  /\ LoopDone(df, Inserted)
  /\ \E ok \in BOOLEAN :
       /\ statements' = Append(statements, Statement("COMMIT", ok))
       /\ IF ok
            THEN /\ durable' = session
                 /\ pc' = "close"
                 /\ UNCHANGED error
            ELSE /\ Abort(OperationalError("COMMIT"))
                 /\ UNCHANGED durable
  /\ UNCHANGED << response, df, conn, cur, session, prior >>

\* Line 137 and 138: cur.close() and conn.close().
Close ==
  /\ pc = "close"
  /\ cur' = "closed"
  /\ conn' = "closed"
  /\ pc' = "done"
  /\ UNCHANGED << response, df, error, session, durable, prior, statements >>

\* No run has started.
PipelineIdle ==
  /\ pc = "fetch"
  /\ response = [status_code |-> 0]
  /\ df = EmptyFrame
  /\ error = NoError
  /\ conn = "none"
  /\ cur = "none"
  /\ session = NoDatabaseObjects
  /\ statements = << >>

RenameIdle == raw = << >> /\ renamed = << >>
ColumnIdle == column = << >> /\ series = << >> /\ passed = << >>

Init ==
  /\ PipelineIdle
  /\ prior \in PriorDatabases
  /\ durable = prior
  /\ RenameIdle
  /\ ColumnIdle

Next ==
  \/ (Fetch /\ UNCHANGED << renameVars, columnVars >>)
  \/ (Normalize /\ UNCHANGED << renameVars, columnVars >>)
  \/ (Connect /\ UNCHANGED << renameVars, columnVars >>)
  \/ (CreateSchema /\ UNCHANGED << renameVars, columnVars >>)
  \/ (DropTable /\ UNCHANGED << renameVars, columnVars >>)
  \/ (CreateTable /\ UNCHANGED << renameVars, columnVars >>)
  \/ (InsertRow /\ UNCHANGED << renameVars, columnVars >>)
  \/ (Commit /\ UNCHANGED << renameVars, columnVars >>)
  \/ (Close /\ UNCHANGED << renameVars, columnVars >>)

Spec == Init /\ [][Next]_vars

----------------------------------------------------------------------------
(* The renaming chain on its own: a raw header through it, and its result  *)
(* through it again.                                                       *)

HeaderAlphabet == { "A", "b", " ", "\t", "?", "&", "-" }

RenameOnce ==
  /\ renamed = << >>
  /\ renamed' = << Canonicalize(raw) >>
  /\ UNCHANGED raw

RenameAgain ==
  /\ Len(renamed) = 1
  /\ renamed' = Append(renamed, Canonicalize(renamed[1]))
  /\ UNCHANGED raw

InitRename ==
  /\ PipelineIdle
  /\ prior = NoDatabaseObjects
  /\ durable = prior
  /\ ColumnIdle
  /\ raw \in Texts(HeaderAlphabet, MaxHeaderLen)
  /\ renamed = << >>

NextRename ==
  \/ (RenameOnce /\ UNCHANGED << pipelineVars, columnVars >>)
  \/ (RenameAgain /\ UNCHANGED << pipelineVars, columnVars >>)

SpecRename == InitRename /\ [][NextRename]_vars

----------------------------------------------------------------------------
(* One column on its own: its fields through read_csv and the null         *)
(* coercion, then through the coercion of the INSERT's tuple.              *)

NumericAlphabet == { "0", "7", "x" }
AnswerAlphabet == { "y", "Y", "e", "E", "s", "S", " ", "\t" }

\* The columns of a numeric question: up to MaxRows fields.
NumericColumns == Texts(Texts(NumericAlphabet, MaxDigits), MaxRows) \ { << >> }

\* The columns of the rural-to-urban question: an answer, alone or followed
\* by a field left empty or by a "no".
AnswerColumns ==
  { << a >> \o rest : a \in Texts(AnswerAlphabet, MaxAnswerLen),
                      rest \in { << >>, << << >> >>, << << "n", "o" >> >> } }

\* Line 40 and 58 for the column.
ReadSeries ==
  /\ series = << >>
  /\ \E castsToObject \in BOOLEAN :
       series' = [i \in DOMAIN column |->
                    Where(ColumnDtype(column), castsToObject, ReadColumn(column)[i])]
  /\ UNCHANGED << column, passed >>

\* Line 130 to 133 for the column.
PassNumeric ==
  /\ series # << >>
  /\ passed = << >>
  /\ passed' = [i \in DOMAIN series |-> OrZero(series[i])]
  /\ UNCHANGED << column, series >>

\* Line 128 for the column.
PassRural ==
  /\ series # << >>
  /\ passed = << >>
  /\ passed' = [i \in DOMAIN series |-> RuralToUrban(series[i])]
  /\ UNCHANGED << column, series >>

InitColumn(columns) ==
  /\ PipelineIdle
  /\ prior = NoDatabaseObjects
  /\ durable = prior
  /\ RenameIdle
  /\ column \in columns
  /\ series = << >>
  /\ passed = << >>

InitNumeric == InitColumn(NumericColumns)

NextNumeric ==
  \/ (ReadSeries /\ UNCHANGED << pipelineVars, renameVars >>)
  \/ (PassNumeric /\ UNCHANGED << pipelineVars, renameVars >>)

SpecNumeric == InitNumeric /\ [][NextNumeric]_vars

InitRural == InitColumn(AnswerColumns)

NextRural ==
  \/ (ReadSeries /\ UNCHANGED << pipelineVars, renameVars >>)
  \/ (PassRural /\ UNCHANGED << pipelineVars, renameVars >>)

SpecRural == InitRural /\ [][NextRural]_vars

----------------------------------------------------------------------------
(* The claims.                                                             *)

\* The commit of the run has succeeded.
Committed ==
  \E k \in DOMAIN statements : statements[k].sql = "COMMIT" /\ statements[k].ok

\* A statement of the given kinds has succeeded.
Succeeded(kinds) ==
  \E k \in DOMAIN statements : statements[k].sql \in kinds /\ statements[k].ok

\* C1: at every point of a run the committed content of the database is what
\* it was before the run, until the commit succeeds; from then on the table
\* exists and holds exactly one row per normalized record, in order, and no
\* row of an earlier run.
C1_DurableIsPriorOrComplete ==
  IF Committed
    THEN /\ schema_name \in durable.schemas
         /\ table_name \in durable.tables
         /\ Len(durable.rows) = Len(df.rows)
         /\ \A i \in DOMAIN df.rows : durable.rows[i] = TableRow(i - 1, Params(df, i))
    ELSE durable = prior

\* C1 witness: a run over two records has committed and closed, replacing the
\* row an earlier run had left.
C1_Witness ==
  /\ pc = "done"
  /\ prior.rows = << EarlierRow >>
  /\ Len(df.rows) = 2
  /\ Len(durable.rows) = 2

\* C2: once the GET has answered with a status that is no success, the run is
\* aborted with the fetch error carrying that status, it has no connection
\* and no cursor, has issued no statement, and the database is as it was.
C2_FetchFailureTouchesNoDatabase ==
  (pc # "fetch" /\ response.status_code \notin 200..299) =>
    /\ pc = "aborted"
    /\ error = FetchError(response.status_code)
    /\ conn = "none"
    /\ cur = "none"
    /\ statements = << >>
    /\ durable = prior

\* C2 witness: the GET answered 401 while the table held an earlier run's row.
C2_Witness ==
  /\ pc = "aborted"
  /\ response.status_code = 401
  /\ prior.rows = << EarlierRow >>

\* C3: no run ends, cleanly or by an exception, with the connection or the
\* cursor still open.
C3_ClosedOnEveryExit ==
  pc \in { "done", "aborted" } => conn # "open" /\ cur # "open"

\* The statement the k-th place of a run over n records is for.
ExpectedStatement(k, n) ==
  CASE k = 1 -> "CREATE SCHEMA IF NOT EXISTS"
    [] k = 2 -> "DROP TABLE IF EXISTS"
    [] k = 3 -> "CREATE TABLE"
    [] k > 3 /\ k <= 3 + n -> "INSERT"
    [] OTHER -> "COMMIT"

\* C4: the statements of a run are a beginning of: create schema, drop table,
\* create table, one INSERT per record with the record's tuple in input
\* order, one commit.  Only the last statement issued may have failed, and
\* then the run is aborted; a run that got past the commit issued them all.
C4_StatementsInOrder ==
  LET n == Len(df.rows)
  IN  /\ Len(statements) <= n + 4
      /\ \A k \in DOMAIN statements :
           /\ statements[k].sql = ExpectedStatement(k, n)
           /\ statements[k].sql = "INSERT" => statements[k].params = Params(df, k - 3)
           /\ ~statements[k].ok => k = Len(statements) /\ pc = "aborted"
      /\ pc \in { "close", "done" } => Len(statements) = n + 4

\* C4 witness: a run over two different records has ended cleanly.
C4_Witness ==
  /\ pc = "done"
  /\ Len(df.rows) = 2
  /\ df.rows[1] # df.rows[2]

\* The run has left the normalizer without the key among its columns, and has
\* neither inserted a row nor committed nor reached its clean end.
StoppedBeforeLoading(key) ==
  (pc \notin { "fetch", "normalize" } /\ df # EmptyFrame /\ ~HasColumn(df, key)) =>
    /\ pc \notin { "close", "done" }
    /\ ~Succeeded({ "INSERT", "COMMIT" })

\* C5: a run whose export has no monthly income column inserts no row and
\* does not commit or end cleanly, however many data lines the export has.
C5_MissingIncomeAborts ==
  StoppedBeforeLoading(what_is_your_current_average_monthly_income_rwf)

\* C6: the same for every expected key: a run whose export lacks it inserts
\* no row, with a default in its place or otherwise, and does not commit.
C6_MissingKeyAborts ==
  \A key \in ExpectedKeys : StoppedBeforeLoading(key)

\* C7: the value passed for a numeric field is the integer 0 when the field
\* is empty, and the integer its digits denote otherwise.
C7_NumericPassedAsInteger ==
  \A i \in DOMAIN passed :
    (IsMissing(column[i]) \/ IsNumberText(column[i])) =>
      passed[i] = IntV(IF IsMissing(column[i]) THEN 0 ELSE ParseInt(column[i]))

\* C8, as stated: the chain applied to its own output returns it unchanged,
\* for every raw header.
C8_Idempotent ==
  Len(renamed) = 2 => renamed[2] = renamed[1]

\* The header has no whitespace but the space.
OnlySpaces(h) == \A i \in DOMAIN h : h[i] \in Whitespace => h[i] = " "

\* C8, amended: the chain applied to its own output returns it unchanged,
\* for every raw header whose only whitespace is the space.
C8_IdempotentOnSpacedHeaders ==
  (Len(renamed) = 2 /\ OnlySpaces(raw)) => renamed[2] = renamed[1]

\* C8 witness: a header with a space and a "?" that the chain changed has
\* been through the chain twice.
C8_Witness ==
  /\ Len(renamed) = 2
  /\ OnlySpaces(raw)
  /\ \E i, j \in DOMAIN raw : raw[i] = " " /\ raw[j] = "?"
  /\ renamed[1] # raw

\* The text is "yes" in any case, with nothing but whitespace around it.
IsYes(s) ==
  \E i \in DOMAIN s :
    /\ i + 2 <= Len(s)
    /\ s[i] \in { "y", "Y" }
    /\ s[i + 1] \in { "e", "E" }
    /\ s[i + 2] \in { "s", "S" }
    /\ \A j \in DOMAIN s \ { i, i + 1, i + 2 } : s[j] \in Whitespace

\* C9: the boolean passed for a rural-to-urban field is true exactly when the
\* field is "yes" in any case with whitespace around it, and false for every
\* other field, an empty one included.
C9_RuralIsYes ==
  \A i \in DOMAIN passed : passed[i] = BoolV(IsYes(column[i]))

\* C9 witness: "YES " with its trailing space has been passed as true.
C9_Witness ==
  /\ passed # << >>
  /\ column[1] = << "Y", "E", "S", " " >>
  /\ passed[1] = BoolV(TRUE)

\* C10: no run is aborted by the value it holds for start or end.
C10_TimestampNeverAborts ==
  ~(pc = "aborted" /\ error.kind = "DataError" /\ error.column \in { 1, 2 })

====
